---- MODULE Spec2Model ----
(***************************************************************************)
(* FiatApiService (services/fiat-api): the fiat rate cache of the AVGX     *)
(* backend.  One service object (cachedRates, fiatConfig, lastFetch) is    *)
(* shared by every caller of getFiatRatesWithWeights(); a call suspends    *)
(* at its awaits (the config read, the baseline read, the upstream fetch,  *)
(* the body read) and other calls run in between.                          *)
(*                                                                         *)
(* Rates are kept in hundredths: 0.85 is 85, 1.0 is 100, 7.25 is 725.      *)
(* Times are milliseconds on the clock Date.now() reads.                   *)
(***************************************************************************)
EXTENDS Integers, Sequences, FiniteSets, TLC

\* ------------------------------------------------------------- bounds
NumCallers == 2
MaxRefreshes == 2
MaxTicks == 3

\* ---------------------------------------------------------- constants
CACHE_DURATION == 60000
MAX_RETRIES == 3
USD_RATE == 100
GENERIC_DEFAULT == 100

Tick == CACHE_DURATION \div 2
Callers == 1..NumCallers
Null == [t |-> "null"]

\* ------------------------------------------------------- JSON values
\* A JSON value found under a code: a number, a non-empty string, or nothing.
Num(v) == [t |-> "num", v |-> v]
Str == [t |-> "str", v |-> 0]
Absent == [t |-> "absent", v |-> 0]

\* A test for presence (`!== undefined`) in the place of truthiness.
MutTruthy_Present(x) == x.t # "absent"

\* JavaScript truthiness of such a value: 0 and undefined are falsy.
Truthy(x) == \/ x.t = "str"
             \/ x.t = "num" /\ x.v # 0

IsNumber(x) == x.t = "num"

Codes == {"USD", "EUR", "XYZ"}

\* --------------------------------------------------------- the files
Cfg(code, name, weight) == [code |-> code, name |-> name, weight |-> weight]

\* fiats.json as it may be on disk: unreadable (null), or a list.
ThreeFiats ==
    [t |-> "list", v |-> << Cfg("USD", "US Dollar", 1), Cfg("EUR", "Euro", 1),
                            Cfg("XYZ", "Unlisted", 1) >>]
WeightedFiats ==
    [t |-> "list", v |-> << Cfg("EUR", "Euro", 3), Cfg("USD", "US Dollar", 1) >>]
WeightlessFiats ==
    [t |-> "list", v |-> << Cfg("USD", "US Dollar", 0), Cfg("EUR", "Euro", 0) >>]
FiatsFiles == { Null, ThreeFiats, WeightedFiats, WeightlessFiats }

Rates(usd, eur, xyz) == [c \in Codes |-> CASE c = "USD" -> usd
                                           [] c = "EUR" -> eur
                                           [] OTHER -> xyz]

\* baseline.json as it may be on disk: unreadable (null), or fiat_rates.
PartialBaseline == [t |-> "obj", fiat_rates |-> Rates(Num(100), Num(92), Absent)]
SkewedBaseline == [t |-> "obj", fiat_rates |-> Rates(Num(110), Num(0), Num(300))]
BaselineFiles == { Null, PartialBaseline, SkewedBaseline }

\* The two files as they are found together on one deployment's disk.
Deployments ==
    { << Null, Null >>,
      << ThreeFiats, PartialBaseline >>,
      << ThreeFiats, SkewedBaseline >>,
      << WeightedFiats, Null >>,
      << WeightlessFiats, PartialBaseline >> }

\* What the upstream body's rates object may hold.
FetchedRates ==
    { Rates(Absent, Num(90), Absent),
      Rates(Num(100), Num(50), Num(150)),
      Rates(Absent, Num(90), Str),
      Rates(Num(250), Num(0), Str),
      Rates(Absent, Num(-90), Absent),
      Rates(Absent, Absent, Absent) }

\* The parsed body: no usable rates structure, or a rates object.
Bodies == { [t |-> "invalid"] } \cup { [t |-> "rates", rates |-> r] : r \in FetchedRates }

VARIABLES
    fiatsFile,      \* fiats.json on disk
    baselineFile,   \* baseline.json on disk
    fiatConfig,     \* this.fiatConfig
    cachedRates,    \* this.cachedRates (the array's contents)
    cacheRef,       \* identity of the array this.cachedRates refers to
    lastFetch,      \* this.lastFetch: Null or a time
    now,            \* Date.now()
    pc,             \* where each call is suspended
    baseline,       \* each call's local `baseline`
    attempt,        \* withRetry's attempt number in each call
    fetches,        \* upstream GETs issued by each call
    how,            \* how each call ended: "hit", "live", "fallback"
    ret,            \* identity of the array each call returned
    source,         \* what the installed snapshot was reconciled from
    started,        \* the calls inside refreshRates(), in the order they entered it
    overtaken,      \* per call inside refreshRates(): a refresh that entered it
                    \* later has already completed
    outOfOrder,     \* the installed snapshot was written by such an overtaken call
    answer          \* what the query made in the last step returned or threw

vars == << fiatsFile, baselineFile, fiatConfig, cachedRates, cacheRef, lastFetch,
           now, pc, baseline, attempt, fetches, how, ret, source, started, overtaken,
           outOfOrder, answer >>

\* ------------------------------------------------- pure parts of the code
\* obj[code] in JavaScript: undefined when the key is missing.
Lookup(obj, code) == IF code \in DOMAIN obj THEN obj[code] ELSE Absent

\* FileManager.readJson(file): the parsed document, or null when it cannot be
\* read.  It reports failure by null, which both call sites test for.
readJson(file) == file

\* baseline?.fiat_rates?.[code]
BaselineRate(bl, code) == IF bl = Null THEN Absent ELSE Lookup(bl.fiat_rates, code)

defaultRates ==
    [ EUR |-> 85, CNY |-> 725, JPY |-> 11000, GBP |-> 73, INR |-> 7500, CAD |-> 125,
      AUD |-> 135, CHF |-> 90, SEK |-> 850, NOK |-> 880, DKK |-> 620, NZD |-> 145,
      SGD |-> 135, HKD |-> 780, KRW |-> 120000, BRL |-> 520, RUB |-> 7500,
      ZAR |-> 1500, AED |-> 367, SAR |-> 375, TRY |-> 850, MXN |-> 2000,
      THB |-> 3200, IDR |-> 1450000, MYR |-> 420, PHP |-> 5000, PLN |-> 380,
      HUF |-> 30000, CZK |-> 2200, CLP |-> 80000, COP |-> 380000, ILS |-> 320,
      EGP |-> 1570, PKR |-> 16000, NGN |-> 41000, KES |-> 11000, BDT |-> 8500,
      VND |-> 2300000, ARS |-> 10000, PEN |-> 370, QAR |-> 364, KWD |-> 30,
      BHD |-> 38, OMR |-> 38, MAD |-> 920, TND |-> 280, UAH |-> 2700,
      LKR |-> 20000, RON |-> 420, BGN |-> 165, HRK |-> 650 ]

\* defaultRates[code] || 1.0
getDefaultRateForCurrency(code) ==
    IF code \in DOMAIN defaultRates /\ defaultRates[code] # 0
    THEN defaultRates[code]
    ELSE GENERIC_DEFAULT

\* { ...config, rate }
Rated(config, rate) ==
    [code |-> config.code, name |-> config.name, weight |-> config.weight, rate |-> rate]

\* A reconciliation that consults the baseline before the fetched rate.
MutLiveTier_BaselineFirst(config, rates, bl) ==
    IF config.code = "USD" THEN "USD"
    ELSE IF Truthy(BaselineRate(bl, config.code)) THEN "BASELINE"
    ELSE IF Truthy(Lookup(rates, config.code)) /\ IsNumber(Lookup(rates, config.code))
         THEN "LIVE"
    ELSE "DEFAULT"

\* The tier the success path takes for one configured asset (the branches of
\* the for loop).
LiveTier(config, rates, bl) ==
    IF config.code = "USD" THEN "USD"
    ELSE IF Truthy(Lookup(rates, config.code)) /\ IsNumber(Lookup(rates, config.code))
         THEN "LIVE"
    ELSE IF Truthy(BaselineRate(bl, config.code)) THEN "BASELINE"
    ELSE "DEFAULT"

\* One iteration of the success path's loop: the entry pushed for `config`.
LiveEntry(config, rates, bl) ==
    LET tier == LiveTier(config, rates, bl) IN
    Rated(config,
          CASE tier = "USD" -> USD_RATE
            [] tier = "LIVE" -> Lookup(rates, config.code).v
            [] tier = "BASELINE" -> BaselineRate(bl, config.code).v
            [] OTHER -> getDefaultRateForCurrency(config.code))

\* A success path that skips the assets it has neither a rate nor a baseline for.
MutReconcileLive_DropMissing(cfg, rates, bl) ==
    LET kept == SelectSeq(cfg, LAMBDA config : LiveTier(config, rates, bl) # "DEFAULT")
    IN [i \in 1..Len(kept) |-> LiveEntry(kept[i], rates, bl)]

\* The success path: cachedRates = [] and one push per configured asset.
ReconcileLive(cfg, rates, bl) == [i \in 1..Len(cfg) |-> LiveEntry(cfg[i], rates, bl)]

CodesOf(seq) == [i \in 1..Len(seq) |-> seq[i].code]

\* The success path's local missingCurrencies: the codes that took a default.
missingCurrenciesLocal(cfg, rates, bl) ==
    CodesOf(SelectSeq(cfg, LAMBDA config : LiveTier(config, rates, bl) = "DEFAULT"))

\* A fallback that ignores the baseline.
MutFallbackEntry_DefaultOnly(config, bl) ==
    Rated(config, getDefaultRateForCurrency(config.code))

\* The catch block's map callback: baseline rate, else default, for every asset.
FallbackEntry(config, bl) ==
    IF Truthy(BaselineRate(bl, config.code))
    THEN Rated(config, BaselineRate(bl, config.code).v)
    ELSE Rated(config, getDefaultRateForCurrency(config.code))

\* The catch block: this.fiatConfig.map(...)
ReconcileFallback(cfg, bl) == [i \in 1..Len(cfg) |-> FallbackEntry(cfg[i], bl)]

\* A staleness test that takes the TTL for seconds.
MutShouldRefreshCache_Seconds(last, t) ==
    IF last = Null THEN TRUE ELSE t - last.v > CACHE_DURATION \div 1000

\* shouldRefreshCache()
shouldRefreshCache(last, t) ==
    IF last = Null THEN TRUE ELSE t - last.v > CACHE_DURATION

InSeq(x, seq) == \E i \in 1..Len(seq) : seq[i] = x

\* getMissingCurrencies(): configured codes with no entry in cachedRates.
getMissingCurrencies(cfg, cached) ==
    LET configCodes == CodesOf(cfg)
        cachedCodes == CodesOf(cached)
    IN SelectSeq(configCodes, LAMBDA code : ~InSeq(code, cachedCodes))

\* Numbers that are not hundredths: an exact fraction.  A zero denominator is
\* what a division by zero leaves behind (Infinity or NaN).
Ratio(n, d) == [num |-> n, den |-> d]
Plus(a, b) == Ratio(a.num * b.den + b.num * a.den, a.den * b.den)
Times(a, w) == Ratio(a.num * w, a.den)

\* A USD value taken to be the rate itself.
MutUsdValue_Direct(fiat) ==
    IF fiat.code = "USD" THEN Ratio(1, 1) ELSE Ratio(fiat.rate, USD_RATE)

\* `fiat.code === 'USD' ? 1.0 : 1.0 / fiat.rate`, the rate being in hundredths.
usdValue(fiat) ==
    IF fiat.code = "USD" THEN Ratio(1, 1) ELSE Ratio(USD_RATE, fiat.rate)

\* The loop of getWeightedFiatAverage(): the two running sums after the first n
\* entries.
RECURSIVE weightedSum(_, _)
weightedSum(cached, n) ==
    IF n = 0 THEN Ratio(0, 1)
    ELSE Plus(weightedSum(cached, n - 1), Times(usdValue(cached[n]), cached[n].weight))

RECURSIVE totalWeight(_, _)
totalWeight(cached, n) ==
    IF n = 0 THEN 0 ELSE totalWeight(cached, n - 1) + cached[n].weight

Error(message) == [t |-> "error", message |-> message]
Number(q) == [t |-> "number", num |-> q.num, den |-> q.den]

\* getWeightedFiatAverage() without the test of the total weight.
MutGetWeightedFiatAverage_NoWeightTest(cached) ==
    IF Len(cached) = 0 THEN Error("No fiat rate data available")
    ELSE LET sum == weightedSum(cached, Len(cached))
         IN Number(Ratio(sum.num, sum.den * totalWeight(cached, Len(cached))))

\* getWeightedFiatAverage() without the test of the empty cache.
MutGetWeightedFiatAverage_NoEmptyTest(cached) ==
    IF totalWeight(cached, Len(cached)) = 0 THEN Error("Invalid fiat weights")
    ELSE LET sum == weightedSum(cached, Len(cached))
         IN Number(Ratio(sum.num, sum.den * totalWeight(cached, Len(cached))))

\* getWeightedFiatAverage(): the error it throws or the number it returns,
\* weightedSum / totalWeight.
getWeightedFiatAverage(cached) ==
    IF Len(cached) = 0 THEN Error("No fiat rate data available")
    ELSE IF totalWeight(cached, Len(cached)) = 0 THEN Error("Invalid fiat weights")
    ELSE LET sum == weightedSum(cached, Len(cached))
         IN Number(Ratio(sum.num, sum.den * totalWeight(cached, Len(cached))))

\* A catch block that ends in `throw error`.
MutHandlerRethrows_Always == TRUE

\* The catch block ends in `return this.cachedRates`: nothing is rethrown.
HandlerRethrows == FALSE

\* withRetry(operation): what follows one attempt of the operation.  A throw
\* leads to another attempt until MAX_RETRIES are used up, then it is re-raised.
withRetry(att, threw) ==
    IF ~threw THEN "done"
    ELSE IF att < MAX_RETRIES THEN "readBaseline"
    ELSE "raised"

\* ------------------------------------------------------------ the state
Date(t) == [t |-> "date", v |-> t]

\* A refresh that fills the array the cache already holds.
MutNewArray_Reuse(ref) == ref

\* `this.cachedRates = []` and `this.fiatConfig.map(...)`: both paths write a
\* newly created array, never the one the cache held before.
NewArray(ref) == ref + 1

\* A catch block that leaves lastFetch as it was.
MutStamp_FallbackKeeps(kind, last, t) == IF kind = "fallback" THEN last ELSE Date(t)

\* A catch block that winds lastFetch back to the epoch, so that the next call
\* refreshes again.
MutStamp_FallbackEpoch(kind, last, t) == IF kind = "fallback" THEN Date(0) ELSE Date(t)

\* `this.lastFetch = new Date()`: both paths stamp the completion time.
Stamp(kind, last, t) == Date(t)

NoRef == 0
\* No query was made in the last step.
NoAnswer == [op |-> "none"]
NoSource == [t |-> "none"]

InRefresh(c) == pc[c] \in {"readBaseline", "fetch", "json"}
InFlight == { c \in Callers : InRefresh(c) }
Starting == { c \in Callers : pc[c] = "initialize" }

Init ==
    /\ \E files \in Deployments : fiatsFile = files[1] /\ baselineFile = files[2]
    /\ fiatConfig = << >>
    /\ cachedRates = << >>
    /\ cacheRef = NoRef
    /\ lastFetch = Null
    /\ now = 0
    /\ pc = [c \in Callers |-> "idle"]
    /\ baseline = [c \in Callers |-> Null]
    /\ attempt = [c \in Callers |-> 0]
    /\ fetches = [c \in Callers |-> 0]
    /\ how = [c \in Callers |-> "none"]
    /\ ret = [c \in Callers |-> NoRef]
    /\ source = NoSource
    /\ started = << >>
    /\ overtaken = [c \in Callers |-> FALSE]
    /\ outOfOrder = FALSE
    /\ answer = NoAnswer

\* A cache test that looks at the age alone, not at the cached array's length.
MutDecide_AgeOnly(c, cfg) ==
    IF ~shouldRefreshCache(lastFetch, now)
    THEN /\ pc' = [pc EXCEPT ![c] = "done"]
         /\ how' = [how EXCEPT ![c] = "hit"]
         /\ ret' = [ret EXCEPT ![c] = cacheRef]
         /\ attempt' = [attempt EXCEPT ![c] = 0]
         /\ started' = started
    ELSE /\ pc' = [pc EXCEPT ![c] = "readBaseline"]
         /\ how' = [how EXCEPT ![c] = "none"]
         /\ ret' = [ret EXCEPT ![c] = NoRef]
         /\ attempt' = [attempt EXCEPT ![c] = 1]
         /\ started' = Append(started, c)

\* getFiatRatesWithWeights() from its second test on: the cached array when the
\* cache is fresh and non-empty, else refreshRates(), whose withRetry starts the
\* operation, which runs up to its first await (the baseline read).
Decide(c, cfg) ==
    IF ~shouldRefreshCache(lastFetch, now) /\ Len(cachedRates) > 0
    THEN /\ pc' = [pc EXCEPT ![c] = "done"]
         /\ how' = [how EXCEPT ![c] = "hit"]
         /\ ret' = [ret EXCEPT ![c] = cacheRef]
         /\ attempt' = [attempt EXCEPT ![c] = 0]
         /\ started' = started
    ELSE /\ pc' = [pc EXCEPT ![c] = "readBaseline"]
         /\ how' = [how EXCEPT ![c] = "none"]
         /\ ret' = [ret EXCEPT ![c] = NoRef]
         /\ attempt' = [attempt EXCEPT ![c] = 1]
         /\ started' = Append(started, c)

\* The refreshes done, under way or about to start are fewer than MaxRefreshes.
CanRefresh == cacheRef + Cardinality(InFlight) + Cardinality(Starting) < MaxRefreshes

\* The call would be answered from the cache.
WouldHit ==
    Len(fiatConfig) > 0 /\ ~shouldRefreshCache(lastFetch, now) /\ Len(cachedRates) > 0

\* A caller calls getFiatRatesWithWeights(): with no config loaded it awaits
\* initialize(), else it goes on at once.
Call(c) ==
    /\ pc[c] \in {"idle", "done", "raised"}
    /\ CanRefresh \/ WouldHit
    /\ answer' = NoAnswer
    /\ fetches' = [fetches EXCEPT ![c] = 0]
    /\ baseline' = [baseline EXCEPT ![c] = Null]
    /\ IF Len(fiatConfig) = 0
       THEN /\ pc' = [pc EXCEPT ![c] = "initialize"]
            /\ how' = [how EXCEPT ![c] = "none"]
            /\ ret' = [ret EXCEPT ![c] = NoRef]
            /\ attempt' = [attempt EXCEPT ![c] = 0]
            /\ started' = started
       ELSE Decide(c, fiatConfig)
    /\ UNCHANGED << fiatsFile, baselineFile, fiatConfig, cachedRates, cacheRef,
                    lastFetch, now, source, overtaken, outOfOrder >>

\* initialize() resumes: fiatConfig = (await readJson('fiats.json')) || [].
InitializeDone(c) ==
    /\ pc[c] = "initialize"
    /\ answer' = NoAnswer
    /\ LET doc == readJson(fiatsFile)
           cfg == IF doc = Null THEN << >> ELSE doc.v
       IN /\ fiatConfig' = cfg
          /\ Decide(c, cfg)
    /\ UNCHANGED << fiatsFile, baselineFile, cachedRates, cacheRef, lastFetch, now,
                    baseline, fetches, source, overtaken, outOfOrder >>

\* The operation resumes with the baseline and issues the upstream GET.
ReadBaselineDone(c) ==
    /\ pc[c] = "readBaseline"
    /\ answer' = NoAnswer
    /\ baseline' = [baseline EXCEPT ![c] = readJson(baselineFile)]
    /\ fetches' = [fetches EXCEPT ![c] = @ + 1]
    /\ pc' = [pc EXCEPT ![c] = "fetch"]
    /\ UNCHANGED << fiatsFile, baselineFile, fiatConfig, cachedRates, cacheRef,
                    lastFetch, now, attempt, how, ret, source, started, overtaken,
                    outOfOrder >>

\* The calls inside refreshRates() without c, in the same order.
Without(c) == SelectSeq(started, LAMBDA d : d # c)

\* d entered refreshRates() before c did, and both are still inside.
StartedBefore(d, c) ==
    \E i, j \in 1..Len(started) : i < j /\ started[i] = d /\ started[j] = c

\* An attempt that, overtaken by a refresh that started later, leaves the newer
\* snapshot in place and returns it.
MutFinish_KeepNewer(c, rates, src, kind, threw) ==
    /\ pc' = [pc EXCEPT ![c] = "done"]
    /\ started' = Without(c)
    /\ overtaken' = [d \in Callers |->
                        IF d = c THEN FALSE ELSE overtaken[d] \/ StartedBefore(d, c)]
    /\ how' = [how EXCEPT ![c] = kind]
    /\ UNCHANGED attempt
    /\ IF overtaken[c]
       THEN /\ ret' = [ret EXCEPT ![c] = cacheRef]
            /\ UNCHANGED << cachedRates, cacheRef, lastFetch, source, outOfOrder >>
       ELSE /\ cachedRates' = rates
            /\ cacheRef' = NewArray(cacheRef)
            /\ lastFetch' = Stamp(kind, lastFetch, now)
            /\ source' = src
            /\ outOfOrder' = FALSE
            /\ ret' = [ret EXCEPT ![c] = NewArray(cacheRef)]

\* The end of one attempt of the operation, after it has written `rates` to the
\* cache: withRetry hands the array on, or, had the operation thrown, retries.
Finish(c, rates, src, kind, threw) ==
    LET next == withRetry(attempt[c], threw) IN
    /\ pc' = [pc EXCEPT ![c] = next]
    /\ started' = IF next = "readBaseline" THEN started ELSE Without(c)
    /\ overtaken' = [d \in Callers |->
                        IF d = c THEN overtaken[c] /\ next = "readBaseline"
                        ELSE overtaken[d] \/ (next = "done" /\ StartedBefore(d, c))]
    /\ IF threw
       THEN /\ UNCHANGED << cachedRates, cacheRef, lastFetch, how, ret, source,
                            outOfOrder >>
            /\ attempt' = [attempt EXCEPT ![c] = IF next = "readBaseline" THEN @ + 1 ELSE @]
       ELSE /\ cachedRates' = rates
            /\ cacheRef' = NewArray(cacheRef)
            /\ lastFetch' = Stamp(kind, lastFetch, now)
            /\ source' = src
            /\ outOfOrder' = overtaken[c]
            /\ how' = [how EXCEPT ![c] = kind]
            /\ ret' = [ret EXCEPT ![c] = NewArray(cacheRef)]
            /\ UNCHANGED attempt

\* A catch block that starts the operation over instead of falling back.
MutCatch_StartOver(c) ==
    /\ pc' = [pc EXCEPT ![c] = "readBaseline"]
    /\ UNCHANGED << cachedRates, cacheRef, lastFetch, attempt, how, ret, source,
                    started, overtaken, outOfOrder >>

\* The catch block: the baseline snapshot is installed and returned.
Catch(c) ==
    Finish(c, ReconcileFallback(fiatConfig, baseline[c]), [t |-> "fail"], "fallback",
           HandlerRethrows)

\* The success path: the reconciled snapshot is installed and returned.
Success(c, rates) ==
    Finish(c, ReconcileLive(fiatConfig, rates, baseline[c]),
           [t |-> "rates", rates |-> rates], "live", FALSE)

\* fetch() settles: it rejects, or answers non-2xx, or answers 2xx and the
\* operation awaits the body.
FetchFails(c) ==
    /\ pc[c] = "fetch"
    /\ answer' = NoAnswer
    /\ Catch(c)
    /\ UNCHANGED << fiatsFile, baselineFile, fiatConfig, now, baseline, fetches >>

FetchOk(c) ==
    /\ pc[c] = "fetch"
    /\ answer' = NoAnswer
    /\ pc' = [pc EXCEPT ![c] = "json"]
    /\ UNCHANGED << fiatsFile, baselineFile, fiatConfig, cachedRates, cacheRef,
                    lastFetch, now, baseline, attempt, fetches, how, ret, source,
                    started, overtaken, outOfOrder >>

\* response.json() settles: it rejects or the body has no rates object (both
\* end in the catch block), or the body has one.
JsonFails(c) ==
    /\ pc[c] = "json"
    /\ answer' = NoAnswer
    /\ Catch(c)
    /\ UNCHANGED << fiatsFile, baselineFile, fiatConfig, now, baseline, fetches >>

JsonOk(c) ==
    /\ pc[c] = "json"
    /\ answer' = NoAnswer
    /\ \E body \in Bodies :
          IF body.t = "invalid" THEN Catch(c) ELSE Success(c, body.rates)
    /\ UNCHANGED << fiatsFile, baselineFile, fiatConfig, now, baseline, fetches >>

\* The clock moves on.
Advance ==
    /\ now < MaxTicks * Tick
    /\ now' = now + Tick
    /\ answer' = NoAnswer
    /\ UNCHANGED << fiatsFile, baselineFile, fiatConfig, cachedRates, cacheRef,
                    lastFetch, pc, baseline, attempt, fetches, how, ret, source,
                    started, overtaken, outOfOrder >>

\* Everything but the record of the last query.
Service ==
    << fiatsFile, baselineFile, fiatConfig, cachedRates, cacheRef, lastFetch, now,
       pc, baseline, attempt, fetches, how, ret, source, started, overtaken,
       outOfOrder >>

\* A getWeightedFiatAverage() that first drops a snapshot older than the TTL.
MutGetWeightedFiatAverage_DropsStale ==
    LET cached == IF shouldRefreshCache(lastFetch, now) THEN << >> ELSE cachedRates IN
    /\ answer' = [op |-> "getWeightedFiatAverage",
                  value |-> getWeightedFiatAverage(cached)]
    /\ cachedRates' = cached
    /\ UNCHANGED << fiatsFile, baselineFile, fiatConfig, cacheRef, lastFetch, now,
                    pc, baseline, attempt, fetches, how, ret, source, started,
                    overtaken, outOfOrder >>

\* The synchronous queries: each reads the fields and returns or throws, and
\* has no assignment in it.
GetWeightedFiatAverage ==
    /\ answer' = [op |-> "getWeightedFiatAverage",
                  value |-> getWeightedFiatAverage(cachedRates)]
    /\ UNCHANGED Service

\* getAllFiatRates(): `return this.cachedRates`, the array itself.
GetAllFiatRates ==
    /\ answer' = [op |-> "getAllFiatRates", value |-> cacheRef]
    /\ UNCHANGED Service

\* getMissingCurrencies(), as GET /api/admin/baseline_status calls it.
GetMissingCurrencies ==
    /\ answer' = [op |-> "getMissingCurrencies",
                  value |-> getMissingCurrencies(fiatConfig, cachedRates)]
    /\ UNCHANGED Service

\* The asynchronous calls and the clock.
Next ==
    \/ Advance
    \/ \E c \in Callers : Call(c)
    \/ \E c \in Callers : InitializeDone(c)
    \/ \E c \in Callers : ReadBaselineDone(c)
    \/ \E c \in Callers : FetchFails(c)
    \/ \E c \in Callers : FetchOk(c)
    \/ \E c \in Callers : JsonFails(c)
    \/ \E c \in Callers : JsonOk(c)

Spec == Init /\ [][Next]_vars

\* Every pending await settles: the file reads resolve, fetch() resolves or
\* rejects, response.json() resolves or rejects.
Settles(c) ==
    /\ WF_vars(InitializeDone(c))
    /\ WF_vars(ReadBaselineDone(c))
    /\ WF_vars(FetchFails(c) \/ FetchOk(c))
    /\ WF_vars(JsonFails(c) \/ JsonOk(c))

FairSpec == Spec /\ \A c \in Callers : Settles(c)

\* The service with its queries, which may be made between any two steps of
\* the calls.
QueryNext ==
    \/ Next
    \/ GetWeightedFiatAverage
    \/ GetAllFiatRates
    \/ GetMissingCurrencies

QuerySpec == Init /\ [][QueryNext]_vars

\* ------------------------------------------------------------ the claims
\* What the claims call a usable (valid) rate: a positive number.
ValidRate(x) == x.t = "num" /\ x.v > 0
\* A value that is no rate at all: missing, not a number, or zero.
NoRate(x) == x.t # "num" \/ x.v = 0
\* The static default for a code: its table value, 1.0 when unlisted.
TableDefault(code) == IF code \in DOMAIN defaultRates THEN defaultRates[code] ELSE 100
\* The rate the fallback chain gives a code: baseline first, then the default.
ChainRate(code) ==
    IF ~NoRate(BaselineRate(baselineFile, code))
    THEN BaselineRate(baselineFile, code).v
    ELSE TableDefault(code)
Refreshed == source # NoSource
Indices == 1..Len(cachedRates)

\* C1: once a refresh has completed (live with full data, live with partial
\* data, or fallback), cachedRates holds exactly one entry per configured code,
\* in the order of the configured list, and nothing else.
C1_TotalCoverage ==
    Refreshed =>
        /\ Len(cachedRates) = Len(fiatConfig)
        /\ \A i \in 1..Len(fiatConfig) : cachedRates[i].code = fiatConfig[i].code
        /\ \A i \in Indices : \E j \in 1..Len(fiatConfig) :
              cachedRates[i].code = fiatConfig[j].code

\* A live refresh with partial data has completed over a three-asset config.
C1_Witness ==
    /\ source.t = "rates"
    /\ \E i \in 1..Len(fiatConfig) : Lookup(source.rates, fiatConfig[i].code) = Absent
    /\ Len(fiatConfig) = 3
    /\ \E c \in Callers : pc[c] = "done" /\ how[c] = "live"

C3_ReferenceRateIsOne ==
    \A i \in Indices : cachedRates[i].code = "USD" => cachedRates[i].rate = 100

\* C4: every cached rate is strictly positive, and a fetched rate that is zero
\* or negative is not stored: its code gets the rate of the fallback chain.
C4_RatesPositive ==
    \A i \in Indices :
        /\ cachedRates[i].rate > 0
        /\ ( /\ source.t = "rates"
             /\ cachedRates[i].code # "USD"
             /\ Lookup(source.rates, cachedRates[i].code).t = "num"
             /\ Lookup(source.rates, cachedRates[i].code).v <= 0 )
           => cachedRates[i].rate = ChainRate(cachedRates[i].code)

\* The codes of the DEFAULT tier of the last reconciliation: not the reference
\* asset, no valid live rate, no baseline rate.
DefaultTierCodes ==
    CodesOf(SelectSeq(fiatConfig,
        LAMBDA config :
            /\ config.code # "USD"
            /\ ~(source.t = "rates" /\ ValidRate(Lookup(source.rates, config.code)))
            /\ NoRate(BaselineRate(baselineFile, config.code))))

\* C5: after a refresh, getMissingCurrencies() returns exactly the configured
\* codes whose rate came from the DEFAULT tier.
C5_MissingAreDefaults ==
    Refreshed => getMissingCurrencies(fiatConfig, cachedRates) = DefaultTierCodes

\* C6: at most one refresh is in flight at any time.
C6_SingleFlight == Cardinality(InFlight) <= 1

\* A call reaches its cache test: it calls with a config loaded, or its
\* initialize() resumes.
Decides(c) == (Call(c) /\ Len(fiatConfig) > 0) \/ InitializeDone(c)
Age == now - lastFetch.v

\* C7: with a non-empty config, a call made within the TTL window of the last
\* refresh returns the cached array as it is, changes neither it nor lastFetch
\* and issues no fetch (so two such calls in a row return the identical
\* snapshot); a call made after the TTL has expired starts one refresh, and a
\* call that refreshed has issued exactly one fetch.
C7_CacheStaleness ==
    /\ [][ \A c \in Callers :
             (Decides(c) /\ Len(fiatConfig') > 0 /\ lastFetch # Null) =>
                 /\ Age < CACHE_DURATION =>
                       /\ pc'[c] = "done" /\ how'[c] = "hit"
                       /\ ret'[c] = cacheRef /\ fetches'[c] = 0
                       /\ UNCHANGED << cachedRates, cacheRef, lastFetch >>
                 /\ Age > CACHE_DURATION =>
                       /\ pc'[c] = "readBaseline" /\ attempt'[c] = 1
                       /\ fetches'[c] = 0 ]_vars
    /\ [](\A c \in Callers :
             /\ fetches[c] <= 1
             /\ (pc[c] = "done" /\ how[c] \in {"live", "fallback"}) => fetches[c] = 1
             /\ (pc[c] = "done" /\ how[c] = "hit") => fetches[c] = 0)

\* Every caller's latest call was a cache hit on the same installed snapshot,
\* made later than the refresh that installed it; one refresh had expired before.
C7_Witness ==
    /\ cacheRef = 2
    /\ lastFetch # Null /\ now > lastFetch.v
    /\ \A c \in Callers : pc[c] = "done" /\ how[c] = "hit" /\ ret[c] = cacheRef

\* C8: a call returns the cached snapshot only at an age strictly below the
\* TTL, and at any age of the TTL or more it starts a refresh.
C8_TtlBoundary ==
    [][ \A c \in Callers :
          (Decides(c) /\ Len(fiatConfig') > 0 /\ lastFetch # Null) =>
              /\ (pc'[c] = "done" /\ how'[c] = "hit") => Age < CACHE_DURATION
              /\ Age >= CACHE_DURATION => pc'[c] = "readBaseline" ]_vars

\* C9: when the fetch fails, no call raises, the call that met the failure ends
\* with the array it installed, and that snapshot gives every non-reference
\* configured code the baseline rate if the baseline has one, else the default.
C9_TotalFetchFailure ==
    /\ \A c \in Callers : pc[c] # "raised"
    /\ \A c \in Callers : how[c] = "fallback" => pc[c] = "done" /\ ret[c] # NoRef
    /\ source.t = "fail" =>
          /\ Len(cachedRates) = Len(fiatConfig)
          /\ \A i \in Indices :
                cachedRates[i].code # "USD" =>
                    cachedRates[i].rate = ChainRate(cachedRates[i].code)

\* A failed fetch has ended in a snapshot with one baseline rate and one default.
C9_Witness ==
    /\ source.t = "fail"
    /\ \E c \in Callers : pc[c] = "done" /\ how[c] = "fallback" /\ ret[c] = cacheRef
    /\ \E i \in Indices : /\ cachedRates[i].code # "USD"
                          /\ ~NoRate(BaselineRate(baselineFile, cachedRates[i].code))
    /\ \E i \in Indices : /\ cachedRates[i].code # "USD"
                          /\ NoRate(BaselineRate(baselineFile, cachedRates[i].code))

\* C10: a call installs the baseline-fallback snapshot only on the last of the
\* retry wrapper's attempts.
C10_RetryBeforeFallback ==
    \A c \in Callers : (pc[c] = "done" /\ how[c] = "fallback") => attempt[c] = MAX_RETRIES

\* The response gave a configured non-reference code a value that is not a number.
Malformed(rates) ==
    \E i \in 1..Len(fiatConfig) :
        /\ fiatConfig[i].code # "USD"
        /\ Lookup(rates, fiatConfig[i].code).t = "str"

\* C11: a 2xx response that carries a non-numeric value for a configured code
\* counts as a failed fetch as a whole: no configured asset takes its rate from
\* that response, every non-reference asset has the baseline rate, else the
\* default.
C11_MalformedIsFailure ==
    (source.t = "rates" /\ Malformed(source.rates)) =>
        \A i \in Indices :
            cachedRates[i].code # "USD" =>
                cachedRates[i].rate = ChainRate(cachedRates[i].code)

\* The cache covers the configuration: one finished entry per configured code.
FullyReconciled ==
    /\ Len(cachedRates) = Len(fiatConfig)
    /\ \A i \in Indices :
          /\ cachedRates[i].code = fiatConfig[i].code
          /\ cachedRates[i].weight = fiatConfig[i].weight
          /\ cachedRates[i].rate \in Int

\* C12: wherever another operation can run, cachedRates is the empty array of
\* before the first refresh or a fully reconciled snapshot; an array keeps its
\* content for as long as it exists, and the array a refresh installs is a new
\* one, held by no caller, so a snapshot returned earlier is never changed.
C12_AtomicReplacement ==
    /\ []((~Refreshed /\ cachedRates = << >>) \/ (Refreshed /\ FullyReconciled))
    /\ [][ /\ cacheRef' = cacheRef => cachedRates' = cachedRates
           /\ cacheRef' # cacheRef =>
                 /\ cacheRef' > cacheRef
                 /\ \A c \in Callers : ret[c] # cacheRef' ]_vars

\* A caller still holds the first snapshot after the refresh of another call
\* has installed a second one.
C12_Witness ==
    /\ cacheRef = 2
    /\ Len(cachedRates) = 3
    /\ \E c, d \in Callers :
          /\ pc[c] = "done" /\ how[c] \in {"live", "fallback"} /\ ret[c] = 1
          /\ pc[d] = "done" /\ how[d] \in {"live", "fallback"} /\ ret[d] = 2

\* The call of c completes a refresh attempt in this step, on either path.
Completes(c) == InRefresh(c) /\ pc'[c] = "done"
\* The call of c is answered from the cache in this step.
Hits(c) == Decides(c) /\ pc'[c] = "done"

\* C13: lastFetch changes only in a step that completes a refresh attempt, and
\* every such step, live success or baseline fallback, sets it to the time of
\* completion; a cache hit leaves lastFetch and cachedRates as they are and has
\* issued no fetch.
C13_LastFetchFrame ==
    [][ /\ lastFetch' # lastFetch => \E c \in Callers : Completes(c)
        /\ \A c \in Callers :
              Completes(c) =>
                  /\ how'[c] \in {"live", "fallback"}
                  /\ lastFetch' = Date(now)
        /\ \A c \in Callers :
              Hits(c) =>
                  /\ how'[c] = "hit"
                  /\ fetches'[c] = 0
                  /\ UNCHANGED << lastFetch, cachedRates, cacheRef >> ]_vars

\* A baseline fallback, completed later than an earlier refresh, has stamped its
\* own completion time, and a call made after it was answered from the cache.
C13_Witness ==
    /\ source.t = "fail"
    /\ cacheRef = 2
    /\ lastFetch # Null /\ lastFetch.v > 0 /\ now > lastFetch.v
    /\ \E c, d \in Callers :
          /\ pc[c] = "done" /\ how[c] = "hit" /\ ret[c] = cacheRef
          /\ pc[d] = "done" /\ how[d] = "fallback" /\ ret[d] = cacheRef

\* C14: lastFetch never goes back: once set it stays set, and each installed
\* snapshot's timestamp is at least the previous one's, also when overlapping
\* refreshes complete out of the order they started in.
C14_LastFetchMonotonic ==
    [][ lastFetch # Null => (lastFetch' # Null /\ lastFetch'.v >= lastFetch.v) ]_vars

\* A refresh that had been overtaken by a later-started one has installed its
\* snapshot over the other's, at a later time than the first stamp.
C14_Witness ==
    /\ outOfOrder
    /\ cacheRef = 2
    /\ lastFetch # Null /\ lastFetch.v > 0

\* Sum and product of f over the index set S.
RECURSIVE Sigma(_, _)
Sigma(f, S) ==
    IF S = {} THEN 0
    ELSE LET i == CHOOSE j \in S : TRUE IN f[i] + Sigma(f, S \ {i})
RECURSIVE Pi(_, _)
Pi(f, S) ==
    IF S = {} THEN 1
    ELSE LET i == CHOOSE j \in S : TRUE IN f[i] * Pi(f, S \ {i})

\* A fraction in lowest terms with a positive denominator.
Abs(n) == IF n < 0 THEN -n ELSE n
RECURSIVE GCD(_, _)
GCD(a, b) == IF b = 0 THEN a ELSE GCD(b, a % b)
Reduced(q) ==
    LET g == GCD(Abs(q.num), Abs(q.den))
        sign == IF q.den < 0 THEN -1 ELSE 1
    IN Ratio((sign * q.num) \div g, (sign * q.den) \div g)

\* What a call of getWeightedFiatAverage() made now gives.
Average == getWeightedFiatAverage(cachedRates)
Finite(x) == x.t = "number" /\ x.den # 0
WeightOf == [i \in Indices |-> cachedRates[i].weight]

\* C15: getWeightedFiatAverage() throws in exactly two cases, the no-data error
\* when the cache has no entry and the invalid-weights error when the weights
\* of the cached entries sum to exactly zero; in every other state it returns a
\* finite number, never the outcome of a division by zero.
C15_AverageFailures ==
    /\ Len(cachedRates) = 0 <=> Average = Error("No fiat rate data available")
    /\ (Len(cachedRates) > 0 /\ Sigma(WeightOf, Indices) = 0)
          <=> Average = Error("Invalid fiat weights")
    /\ Average.t = "error" \/ Finite(Average)

\* A basket whose weights are all zero has been installed: the average throws.
C15_Witness ==
    /\ Refreshed
    /\ Len(cachedRates) = 2
    /\ Sigma(WeightOf, Indices) = 0
    /\ Average.t = "error"

\* The USD value of entry i as a fraction: 1 for USD, 1/rate for any other code.
UsdNum == [i \in Indices |-> IF cachedRates[i].code = "USD" THEN 1 ELSE USD_RATE]
UsdDen == [i \in Indices |-> IF cachedRates[i].code = "USD" THEN 1 ELSE cachedRates[i].rate]
\* Sigma(usdValue * weight) over the common denominator Pi(UsdDen).
WeightedNum ==
    Sigma([i \in Indices |->
              cachedRates[i].weight * UsdNum[i] * Pi(UsdDen, Indices \ {i})], Indices)
\* The basket of the example: weights 3 and 1, rates 1/2 and 1 (USD values 2.0
\* and 1.0).
ExampleBasket ==
    /\ Len(cachedRates) = 2
    /\ cachedRates[1].code = "EUR" /\ cachedRates[1].weight = 3
    /\ cachedRates[1].rate = 50
    /\ cachedRates[2].code = "USD" /\ cachedRates[2].weight = 1

\* C16: the number getWeightedFiatAverage() returns is the sum over the cached
\* entries of usdValue times weight divided by the sum of the weights, usdValue
\* being 1 for USD and 1/rate for any other code; for weights 1 and 3 with USD
\* values 1.0 and 2.0 it is 1.75.
C16_WeightedAverage ==
    /\ Average.t = "number" =>
          Reduced(Average) =
              Reduced(Ratio(WeightedNum,
                            Pi(UsdDen, Indices) * Sigma(WeightOf, Indices)))
    /\ ExampleBasket => (Finite(Average) /\ Reduced(Average) = Ratio(7, 4))

\* The example basket is the installed snapshot, USD at rate 1.0.
C16_Witness ==
    /\ ExampleBasket
    /\ cachedRates[2].rate = USD_RATE
    /\ source.t = "rates"

\* C17: with an empty asset list a call completes without raising and returns
\* an array of size zero, and getWeightedFiatAverage() then throws the no-data
\* error.
C17_EmptyConfigNotFatal ==
    \A c \in Callers :
        (Len(fiatConfig) = 0 /\ pc[c] \in {"done", "raised"}) =>
            /\ pc[c] = "done"
            /\ ret[c] # NoRef /\ ret[c] <= cacheRef
            /\ Len(cachedRates) = 0
            /\ Average = Error("No fiat rate data available")

\* The asset list did not load and a call has returned the empty basket it
\* installed.
C17_Witness ==
    /\ fiatsFile = Null /\ Len(fiatConfig) = 0
    /\ \E c \in Callers : pc[c] = "done" /\ ret[c] = cacheRef /\ cacheRef > NoRef
    /\ Average.t = "error"

\* The call of c is waiting on an await; it has returned or raised.
Pending(c) == pc[c] \in {"initialize", "readBaseline", "fetch", "json"}
Completed(c) == pc[c] \in {"done", "raised"}

\* C18: when every file read and every fetch settles, each call of
\* getFiatRatesWithWeights() completes, returning or raising, and it never goes
\* beyond the retry wrapper's number of attempts.
C18_BoundedTermination ==
    /\ [](\A c \in Callers : attempt[c] <= MAX_RETRIES /\ fetches[c] <= MAX_RETRIES)
    /\ \A c \in Callers : Pending(c) ~> Completed(c)

\* A call that went through initialize(), the baseline read and the fetch has
\* returned, within the bound.
C18_Witness ==
    \E c \in Callers :
        /\ pc[c] = "done" /\ how[c] \in {"live", "fallback"}
        /\ attempt[c] \in 1..MAX_RETRIES
        /\ fetches[c] = 1
        /\ Len(fiatConfig) > 0

\* C19: a call of refreshRates() issues at most one upstream fetch over all the
\* attempts of the wrapped operation, since no failure at or after the fetch
\* reaches the retry wrapper (no second attempt, nothing raised); a refresh that
\* ended with a live snapshot issued exactly one.
C19_OneFetchPerRefresh ==
    \A c \in Callers :
        /\ fetches[c] <= 1
        /\ attempt[c] <= 1
        /\ pc[c] # "raised"
        /\ pc[c] \in {"fetch", "json"} => fetches[c] = 1
        /\ (pc[c] = "done" /\ how[c] = "live") => fetches[c] = 1

\* One call's fetch failed and ended in the fallback, another's succeeded and
\* ended live: each issued one fetch in one attempt.
C19_Witness ==
    \E c, d \in Callers :
        /\ pc[c] = "done" /\ how[c] = "fallback" /\ fetches[c] = 1 /\ attempt[c] = 1
        /\ pc[d] = "done" /\ how[d] = "live" /\ fetches[d] = 1 /\ attempt[d] = 1

\* The snapshot the completing call of c has built from its own fetch outcome.
OwnSnapshot(c) ==
    IF how'[c] = "live"
    THEN source'.t = "rates"
         /\ cachedRates' = ReconcileLive(fiatConfig, source'.rates, baseline[c])
    ELSE source'.t = "fail"
         /\ cachedRates' = ReconcileFallback(fiatConfig, baseline[c])

\* C20: whichever refresh completes installs its own snapshot and its own
\* completion time, whatever the order in which the overlapping refreshes
\* started; so after both have completed the cache is that of the one that
\* completed last, and an earlier-started refresh (also one ending in the
\* baseline fallback) overwrites the live snapshot of a later-started one.
C20_LastCompletionWins ==
    [][ \A c \in Callers :
          Completes(c) =>
              /\ cacheRef' = cacheRef + 1
              /\ ret'[c] = cacheRef'
              /\ lastFetch' = Date(now)
              /\ OwnSnapshot(c)
              /\ outOfOrder' = overtaken[c] ]_vars

\* A refresh that started first and ended in the baseline fallback has
\* overwritten the live snapshot of a refresh that started after it and
\* completed before it; no refresh is left in flight.
C20_Witness ==
    /\ outOfOrder
    /\ source.t = "fail"
    /\ InFlight = {}
    /\ \E c, d \in Callers :
          /\ pc[c] = "done" /\ how[c] = "fallback" /\ ret[c] = cacheRef
          /\ pc[d] = "done" /\ how[d] = "live" /\ ret[d] = cacheRef - 1

\* The value is the number zero.
IsZero(x) == x.t = "num" /\ x.v = 0
\* Entry i did not take its rate from the response: the fetch failed, or the
\* response's value for its code is missing, zero or not a number.
NotLive(i) ==
    \/ source.t = "fail"
    \/ /\ source.t = "rates"
       /\ cachedRates[i].code # "USD"
       /\ NoRate(Lookup(source.rates, cachedRates[i].code))

\* C21: no cached rate is ever zero: a zero fetched rate falls through to the
\* baseline, a zero baseline rate falls through to the default table, every
\* default is non-zero, and so the 1/rate of getWeightedFiatAverage() never
\* divides by zero.
C21_NoZeroRate ==
    /\ \A i \in Indices : cachedRates[i].rate # 0
    /\ \A i \in Indices :
          ( /\ source.t = "rates"
            /\ cachedRates[i].code # "USD"
            /\ IsZero(Lookup(source.rates, cachedRates[i].code)) )
          => cachedRates[i].rate = ChainRate(cachedRates[i].code)
    /\ \A i \in Indices :
          (NotLive(i) /\ IsZero(BaselineRate(baselineFile, cachedRates[i].code)))
          => cachedRates[i].rate = TableDefault(cachedRates[i].code)
    /\ \A code \in DOMAIN defaultRates : defaultRates[code] # 0
    /\ GENERIC_DEFAULT # 0
    /\ \A i \in Indices : usdValue(cachedRates[i]).den # 0
    /\ Average.t = "number" => Average.den # 0

\* A live snapshot in which a code whose fetched rate and whose baseline rate
\* were both zero holds its table default.
C21_Witness ==
    /\ source.t = "rates"
    /\ \E i \in Indices :
          /\ cachedRates[i].code # "USD"
          /\ IsZero(Lookup(source.rates, cachedRates[i].code))
          /\ IsZero(BaselineRate(baselineFile, cachedRates[i].code))
          /\ cachedRates[i].rate = TableDefault(cachedRates[i].code)
    /\ Finite(Average)

\* C23: while the config list is empty the cache never hits: every call of
\* getFiatRatesWithWeights() awaits initialize() again and then starts a full
\* refresh, whatever the age of the previous one, and a call that has returned
\* has issued one upstream fetch.
C23_EmptyConfigNeverHits ==
    /\ [][ \A c \in Callers :
             /\ (Call(c) /\ Len(fiatConfig) = 0) => pc'[c] = "initialize"
             /\ (InitializeDone(c) /\ Len(fiatConfig') = 0) =>
                   /\ pc'[c] = "readBaseline"
                   /\ attempt'[c] = 1 /\ fetches'[c] = 0 ]_vars
    /\ [](\A c \in Callers :
             (Len(fiatConfig) = 0 /\ pc[c] = "done") =>
                 /\ how[c] \in {"live", "fallback"}
                 /\ fetches[c] = 1)

\* With no asset list, one caller alone has refreshed twice: its second call
\* came less than the TTL after its first refresh had completed and still
\* fetched.
C23_Witness ==
    /\ fiatsFile = Null /\ Len(fiatConfig) = 0
    /\ cacheRef = 2
    /\ now < CACHE_DURATION
    /\ \E c \in Callers :
          /\ pc[c] = "done" /\ ret[c] = 2 /\ fetches[c] = 1
          /\ \A d \in Callers \ {c} : pc[d] = "idle"

\* The step is one of the three queries returning or throwing.
Queried == answer'.op # "none"
\* The age of the installed snapshot is beyond the TTL.
Stale == lastFetch # Null /\ now - lastFetch.v > CACHE_DURATION

\* C22: a step of getWeightedFiatAverage(), getAllFiatRates() or
\* getMissingCurrencies() changes neither cachedRates nor lastFetch nor the
\* config, starts no refresh and issues no fetch, whatever the age of the
\* snapshot; it answers from the fields as they are, so the average of a stale
\* snapshot is returned as it is, and before any refresh has completed
\* getWeightedFiatAverage() throws the no-data error.
C22_QueriesReadOnly ==
    /\ [][ Queried =>
             /\ UNCHANGED << cachedRates, cacheRef, lastFetch, fiatConfig >>
             /\ UNCHANGED << pc, attempt, fetches, started >>
             /\ answer'.op = "getWeightedFiatAverage" =>
                   /\ answer'.value = Average
                   /\ ~Refreshed =>
                         answer'.value = Error("No fiat rate data available")
             /\ answer'.op = "getAllFiatRates" => answer'.value = cacheRef
             /\ answer'.op = "getMissingCurrencies" =>
                   \A code \in Codes :
                       InSeq(code, answer'.value) <=>
                           /\ InSeq(code, CodesOf(fiatConfig))
                           /\ ~InSeq(code, CodesOf(cachedRates)) ]_vars
    /\ []((answer.op = "getWeightedFiatAverage" /\ ~Refreshed) =>
              answer.value.t = "error")

\* getWeightedFiatAverage() has returned a number computed from a snapshot older
\* than the TTL, and no refresh is under way.
C22_Witness ==
    /\ answer.op = "getWeightedFiatAverage"
    /\ answer.value.t = "number"
    /\ Stale
    /\ InFlight = {} /\ Starting = {}

====
